---- MODULE Spec2Model ----
(***************************************************************************)
(* Model of the resume analysis backend (src/backend/index.js): the        *)
(* /analyze batch handler with its per-file pipelines, scoreResume with    *)
(* its strict and fallback parsing of the oracle's text, and /download.    *)
(*                                                                         *)
(* Text is modelled as a sequence of chunks.  The oracle's raw text is a   *)
(* sequence of tokens (braces, commas, whitespace, prose, and              *)
(* "key": literal pairs); numbers are fixed point with one decimal digit   *)
(* (a JS number n is held as 10 * n), so that fractional scores exist.     *)
(***************************************************************************)
EXTENDS Integers, Sequences, FiniteSets, TLC

\* ------------------------------------------------------------------ bounds
\* Largest number of files in one /analyze request.
MaxFiles == 2
\* Largest number of tokens before, and after, the braces of a generated text.
MaxAffix == 1
\* Analyze requests started by one App instance.
MaxClicks == 3

\* --------------------------------------------------------------- JS values
Undefined == [ty |-> "undefined", num |-> 0, str |-> <<>>]
JsNull == [ty |-> "object", num |-> 0, str |-> <<>>]
\* A JS number, held in tenths.
JsNumber(tenths) == [ty |-> "number", num |-> tenths, str |-> <<>>]
JsString(s) == [ty |-> "string", num |-> 0, str |-> s]
typeof(v) == v.ty

\* Property access on an object (a function from keys to values).
Get(obj, k) == IF k \in DOMAIN obj THEN obj[k] ELSE Undefined

\* Object spread / literal order: the keys of b override those of a.
Spread(a, b) ==
    [k \in (DOMAIN a) \cup (DOMAIN b) |-> IF k \in DOMAIN b THEN b[k] ELSE a[k]]

EmptyObject == [k \in {} |-> Undefined]

\* The result of running a block of code: a returned value or a thrown Error.
Return(v) == [ok |-> TRUE, val |-> v, msg |-> <<>>]
Throw(m) == [ok |-> FALSE, val |-> EmptyObject, msg |-> m]

\* ------------------------------------------------------------ oracle text
\* Literals that can follow "key": in the raw text.
NumLit(neg, int, frac) == [lit |-> "num", neg |-> neg, int |-> int, frac |-> frac, chars |-> <<>>]
StrLit(chars) == [lit |-> "str", neg |-> FALSE, int |-> 0, frac |-> 0, chars |-> chars]
NullLit == [lit |-> "null", neg |-> FALSE, int |-> 0, frac |-> 0, chars |-> <<>>]
\* An unquoted word such as high: not JSON.
BareLit == [lit |-> "bare", neg |-> FALSE, int |-> 0, frac |-> 0, chars |-> <<>>]
NoLit == [lit |-> "none", neg |-> FALSE, int |-> 0, frac |-> 0, chars |-> <<>>]

LB == [tok |-> "lbrace", key |-> "", val |-> NoLit]
RB == [tok |-> "rbrace", key |-> "", val |-> NoLit]
COMMA == [tok |-> "comma", key |-> "", val |-> NoLit]
WS == [tok |-> "ws", key |-> "", val |-> NoLit]
PROSE == [tok |-> "prose", key |-> "", val |-> NoLit]
Pair(k, v) == [tok |-> "pair", key |-> k, val |-> v]

\* String.prototype.trim: leading and trailing whitespace removed.
RECURSIVE TrimStart(_)
TrimStart(t) ==
    IF t # <<>> /\ t[1] = WS THEN TrimStart(Tail(t)) ELSE t

RECURSIVE TrimEnd(_)
TrimEnd(t) ==
    IF t # <<>> /\ t[Len(t)] = WS THEN TrimEnd(SubSeq(t, 1, Len(t) - 1)) ELSE t

trim(t) == TrimEnd(TrimStart(t))

\* indexOf / lastIndexOf of a one-character token, 1-based; 0 is JS's -1.
indexOf(t, tok) ==
    IF \E i \in 1..Len(t) : t[i] = tok
    THEN CHOOSE i \in 1..Len(t) : t[i] = tok /\ \A j \in 1..(i - 1) : t[j] # tok
    ELSE 0

lastIndexOf(t, tok) ==
    IF \E i \in 1..Len(t) : t[i] = tok
    THEN CHOOSE i \in 1..Len(t) : t[i] = tok /\ \A j \in (i + 1)..Len(t) : t[j] # tok
    ELSE 0

\* substring(jsonStart, jsonEnd + 1) on 1-based s (first brace) and e (last brace):
\* JS swaps the two arguments when the first is the larger.
substring_ExclusiveEnd(t, s, e) ==
    IF s <= e - 1 THEN SubSeq(t, s, e - 1) ELSE SubSeq(t, e, s - 1)
substring(t, s, e) ==
    IF s <= e THEN SubSeq(t, s, e) ELSE SubSeq(t, e + 1, s - 1)

\* JSON string escapes: \" is a quote and \n a line break.
JsonUnescapeChar(c) ==
    CASE c = "ESC_QUOTE" -> "QUOTE"
      [] c = "ESC_N" -> "NEWLINE"
      [] OTHER -> c

JsonUnescape(chars) == [i \in 1..Len(chars) |-> JsonUnescapeChar(chars[i])]

\* .replace(/\\"/g, '"'): only \" is unescaped; \n stays a backslash and an n.
RegexUnescapeChar(c) ==
    CASE c = "ESC_QUOTE" -> "QUOTE"
      [] OTHER -> c

RegexUnescape(chars) == [i \in 1..Len(chars) |-> RegexUnescapeChar(chars[i])]

\* The value JSON.parse gives a literal.
JsonValue(l) ==
    CASE l.lit = "num" -> JsNumber((IF l.neg THEN -1 ELSE 1) * (l.int * 10 + l.frac))
      [] l.lit = "str" -> JsString(JsonUnescape(l.chars))
      [] OTHER -> JsNull

NotWs(x) == x # WS

\* Whether JSON.parse accepts the text: { member , member ... } with whitespace
\* allowed between tokens, and nothing else.
JsonWellFormed(t) ==
    LET u == SelectSeq(t, NotWs)
        n == Len(u)
    IN  /\ n >= 2
        /\ u[1] = LB
        /\ u[n] = RB
        /\ \/ n = 2
           \/ /\ n % 2 = 1
              /\ \A i \in 2..(n - 1) :
                    IF i % 2 = 0
                    THEN u[i].tok = "pair" /\ u[i].val.lit \in {"num", "str", "null"}
                    ELSE u[i] = COMMA

\* The object JSON.parse builds from a well-formed text: a repeated key keeps
\* its last value.
JsonObject(t) ==
    LET u == SelectSeq(t, NotWs)
        at(k) == CHOOSE i \in 1..Len(u) :
                    /\ u[i].tok = "pair" /\ u[i].key = k
                    /\ \A j \in (i + 1)..Len(u) : ~(u[j].tok = "pair" /\ u[j].key = k)
    IN  [k \in {u[i].key : i \in {j \in 1..Len(u) : u[j].tok = "pair"}} |->
            JsonValue(u[at(k)].val)]

JSONparse(t) ==
    IF JsonWellFormed(t) THEN Return(JsonObject(t)) ELSE Throw(<<"SyntaxError: Unexpected token in JSON">>)

\* textResponse.match(/"score":\s*(\d+)/): the first "score": followed by digits.
\* A negative number or a quoted one does not match; of 72.5 the 72 is captured.
ScoreMatches_Signed(t) ==
    {i \in 1..Len(t) : t[i].tok = "pair" /\ t[i].key = "score" /\ t[i].val.lit = "num"}
ScoreMatches(t) ==
    {i \in 1..Len(t) : t[i].tok = "pair" /\ t[i].key = "score"
                       /\ t[i].val.lit = "num" /\ ~t[i].val.neg}

\* textResponse.match(/"<key>":\s*"(.*?)(?<!\\)"/s): the first "<key>": followed
\* by a quoted text, up to its closing unescaped quote.
TextMatches(t, k) ==
    {i \in 1..Len(t) : t[i].tok = "pair" /\ t[i].key = k /\ t[i].val.lit = "str"}

First(S) == CHOOSE i \in S : \A j \in S : i <= j

\* parseInt(digits, 10), in tenths.
parseInt(l) == JsNumber(l.int * 10)

\* ------------------------------------------------------------- scoreResume
\* What the external oracle (groq.chat.completions.create) does with one call:
\* it throws (transport error, timeout raised by the client), never settles
\* ("hang"), or resolves with a completion whose choices are missing, empty,
\* without content, or carry a text.
OracleThrow(m) == [kind |-> "throw", msg |-> m, choices |-> "none", text |-> <<>>]
OracleHang == [kind |-> "hang", msg |-> <<>>, choices |-> "none", text |-> <<>>]
OracleReply(c, t) == [kind |-> "reply", msg |-> <<>>, choices |-> c, text |-> t]

\* process.env.GROQ_API_KEY: unset, set to the empty string, or set.
KeyValues == {"UNSET", "", "gsk_key"}

\* !process.env.GROQ_API_KEY
KeyMissing_OnlyUnset(k) == k = "UNSET"
KeyMissing(k) == k \in {"UNSET", ""}

NoKeyResult ==
    [score |-> JsNumber(0),
     goodPoints |-> JsString(<<"API key not configured.">>),
     badPoints |-> JsString(<<"Cannot evaluate resume without a Groq API key. Please check server configuration.">>)]

ErrorResult(m) ==
    [score |-> JsNumber(0),
     goodPoints |-> JsString(<<"An error occurred during evaluation.">>),
     badPoints |-> JsString(<<"Evaluation failed due to an internal error: ">> \o m
                    \o <<". Please ensure your API key is valid and the Groq model is accessible.">>)]

\* chatCompletion.choices[0]?.message?.content?.trim(): a text, or undefined;
\* reading [0] of missing choices throws.
TextOf(t) == [ok |-> TRUE, def |-> TRUE, text |-> t, msg |-> <<>>]
NoText == [ok |-> TRUE, def |-> FALSE, text |-> <<>>, msg |-> <<>>]
TextResponse(o) ==
    CASE o.choices = "missing" ->
            [ok |-> FALSE, def |-> FALSE, text |-> <<>>,
             msg |-> <<"TypeError: Cannot read properties of undefined (reading '0')">>]
      [] o.choices \in {"empty", "nocontent"} -> NoText
      [] OTHER -> TextOf(trim(o.text))

\* The inner try: slice from the first { to the last } and JSON.parse it.
StrictParse(tr) ==
    IF ~tr.def
    THEN Throw(<<"TypeError: Cannot read properties of undefined (reading 'indexOf')">>)
    ELSE LET jsonStart == indexOf(tr.text, LB)
             jsonEnd == lastIndexOf(tr.text, RB)
         IN  IF jsonStart = 0 \/ jsonEnd = 0
             THEN Throw(<<"JSON object boundaries not found in AI response.">>)
             ELSE JSONparse(substring(tr.text, jsonStart, jsonEnd))

\* The inner catch: each key recovered by pattern, or a placeholder.
FallbackParse_NoPlaceholders(tr) ==
    IF ~tr.def
    THEN Throw(<<"TypeError: Cannot read properties of undefined (reading 'match')">>)
    ELSE LET scoreMatch == ScoreMatches(tr.text)
             goodPointsMatch == TextMatches(tr.text, "goodPoints")
             badPointsMatch == TextMatches(tr.text, "badPoints")
         IN  Return(
               [score |-> IF scoreMatch # {}
                          THEN parseInt(tr.text[First(scoreMatch)].val)
                          ELSE JsNull,
                goodPoints |-> IF goodPointsMatch # {}
                               THEN JsString(RegexUnescape(tr.text[First(goodPointsMatch)].val.chars))
                               ELSE JsNull,
                badPoints |-> IF badPointsMatch # {}
                              THEN JsString(RegexUnescape(tr.text[First(badPointsMatch)].val.chars))
                              ELSE JsNull])
FallbackParse(tr) ==
    IF ~tr.def
    THEN Throw(<<"TypeError: Cannot read properties of undefined (reading 'match')">>)
    ELSE LET scoreMatch == ScoreMatches(tr.text)
             goodPointsMatch == TextMatches(tr.text, "goodPoints")
             badPointsMatch == TextMatches(tr.text, "badPoints")
         IN  Return(
               [score |-> IF scoreMatch # {}
                          THEN parseInt(tr.text[First(scoreMatch)].val)
                          ELSE JsNumber(0),
                goodPoints |-> IF goodPointsMatch # {}
                               THEN JsString(RegexUnescape(tr.text[First(goodPointsMatch)].val.chars))
                               ELSE JsString(<<"AI response format issue: Good points could not be extracted.">>),
                badPoints |-> IF badPointsMatch # {}
                              THEN JsString(RegexUnescape(tr.text[First(badPointsMatch)].val.chars))
                              ELSE JsString(<<"AI response format issue: Bad points could not be extracted.">>)])

\* let parsedResult; try { strict } catch (jsonError) { fallback }
ParsedResult(tr) ==
    LET strict == StrictParse(tr)
    IN  IF strict.ok THEN strict ELSE FallbackParse(tr)

\* The type check after either path.
StructureValid_ScoreOnly(p) == typeof(Get(p, "score")) = "number"
StructureValid(p) ==
    /\ typeof(Get(p, "score")) = "number"
    /\ typeof(Get(p, "goodPoints")) = "string"
    /\ typeof(Get(p, "badPoints")) = "string"

\* The body of the outer try, from the oracle's answer on.
TryBody(o) ==
    IF o.kind = "throw" THEN Throw(o.msg)
    ELSE LET tr == TextResponse(o)
         IN  IF ~tr.ok THEN Throw(tr.msg)
             ELSE LET p == ParsedResult(tr)
                  IN  IF ~p.ok THEN p
                      ELSE IF ~StructureValid(p.val)
                      THEN Throw(<<"AI response did not return the expected JSON structure (score, goodPoints, badPoints).">>)
                      ELSE p

\* The outer catch turns whatever the try body throws into the degraded result.
OuterCatch_Rethrow(r) == r
OuterCatch(r) == IF r.ok THEN r ELSE Return(ErrorResult(r.msg))

\* scoreResume once the oracle's call has settled (o is not a hang): what the
\* returned promise settles to.
scoreResume(key, o) ==
    IF KeyMissing(key) THEN Return(NoKeyResult) ELSE OuterCatch(TryBody(o))

\* Whether scoreResume reaches groq.chat.completions.create.
InvokesOracle(key) == ~KeyMissing(key)

\* ------------------------------------------------------- files and storage
\* A file name is a sequence of chunks, "." being a chunk of its own.
ToLowerChunk(c) ==
    CASE c = "PDF" -> "pdf"
      [] c = "CV" -> "cv"
      [] OTHER -> c

toLowerCase(name) == [i \in 1..Len(name) |-> ToLowerChunk(name[i])]

\* path.extname: from the last "." on, or empty when there is none or the name
\* starts with its only ".".
extname(name) ==
    LET dot == lastIndexOf(name, ".")
    IN  IF dot <= 1 THEN <<>> ELSE SubSeq(name, dot, Len(name))

uploadsDir == "uploads"

\* Date.now() + '-' + Math.round(Math.random() * 1E9) of the k-th stored file.
UniqueSuffix(k) == <<"t-100", "t-101", "t-102", "t-103", "t-104", "t-105">>[k + 1]

\* multer's filename callback and destination: where upload k of a request is
\* stored.
StoredPath(k, originalname) ==
    [dir |-> uploadsDir,
     base |-> <<"resumes", "-", UniqueSuffix(k)>> \o extname(originalname)]

\* path.basename and path.join(uploadsDir, filename).
basename(p) == p.base
JoinUploads(filename) ==
    [dir |-> uploadsDir, base |-> IF filename = <<".">> THEN <<>> ELSE filename]

\* The uploads directory itself (created when the server starts): what
\* path.join(uploadsDir, '.') names.
IsDirectory(p) == p.base = <<>>

\* A document kept from an earlier request.
EarlierDocument == StoredPath(0, <<"old", ".", "pdf">>)

\* An uploaded file as the client sends it and the environment treats it:
\* its name, what its bytes really are, whether the stored document resists
\* removal (unlinkSync throws EPERM/EBUSY), and what the oracle does when
\* asked about it.
Upload(name, content, locked, oracle) ==
    [originalname |-> name, content |-> content, locked |-> locked, oracle |-> oracle]

GoodText ==
    <<LB, Pair("score", NumLit(FALSE, 72, 0)), COMMA, Pair("goodPoints", StrLit(<<"x">>)),
      COMMA, Pair("badPoints", StrLit(<<"y">>)), RB>>

\* Oracle behaviours used in batch requests: a transport error, a call that
\* never settles, a completion without content, the requested JSON, a JSON
\* whose score is out of range, two JSONs with a key beyond the three asked
\* for, and a malformed text (commas missing) that the fallback path reads.
BatchOracles ==
    { OracleThrow(<<"Connection error.">>),
      OracleHang,
      OracleReply("nocontent", <<>>),
      OracleReply("text", GoodText),
      OracleReply("text", <<LB, Pair("score", NumLit(FALSE, 150, 0)), COMMA,
                            Pair("goodPoints", StrLit(<<"x">>)), COMMA,
                            Pair("badPoints", StrLit(<<"y">>)), RB>>),
      OracleReply("text", SubSeq(GoodText, 1, 6) \o
                          <<COMMA, Pair("savedFilename", StrLit(<<"other", ".", "pdf">>)), RB>>),
      OracleReply("text", SubSeq(GoodText, 1, 6) \o
                          <<COMMA, Pair("error", StrLit(<<"e">>)), RB>>),
      OracleReply("text", <<PROSE, LB, Pair("score", NumLit(FALSE, 85, 0)), WS,
                            Pair("goodPoints", StrLit(<<"x">>)), RB>>) }

GoodOracle == OracleReply("text", GoodText)

TransportError == OracleThrow(<<"Connection error.">>)

\* The uploads a request is made of: supported files that extract, one per
\* oracle behaviour; corrupt ones; unsupported ones.
Uploads ==
    { Upload(<<"cv", ".", "pdf">>, "pdf", FALSE, o) :
        o \in BatchOracles \ {GoodOracle, TransportError} }
    \cup { Upload(<<"CV", ".", "PDF">>, "pdf", FALSE, GoodOracle),
           Upload(<<"cv", ".", "docx">>, "docx", FALSE, TransportError),
           Upload(<<"cv", ".", "docx">>, "garbage", FALSE, GoodOracle),
           Upload(<<"cv", ".", "pdf">>, "garbage", TRUE, GoodOracle),
           Upload(<<"notes", ".", "txt">>, "text", TRUE, GoodOracle),
           Upload(<<"resume">>, "pdf", FALSE, GoodOracle) }

\* Without a key the oracle is never called, so its behaviours are not told
\* apart: three of them stand for all.
UploadsWith(key) ==
    IF KeyMissing(key)
    THEN {u \in Uploads : u.oracle \in {GoodOracle, OracleHang, TransportError}}
    ELSE Uploads

RECURSIVE SeqsUpTo(_, _)
SeqsUpTo(S, n) ==
    IF n = 0 THEN {<<>>}
    ELSE LET shorter == SeqsUpTo(S, n - 1)
         IN  shorter \cup {Append(q, x) : q \in {r \in shorter : Len(r) = n - 1}, x \in S}

\* req.body.jobDescription: absent, empty, or a text.
JobDescriptions == {"UNDEFINED", "", "Backend engineer"}

VARIABLES
    apiKey,        \* process.env.GROQ_API_KEY
    uploads,       \* the paths of the documents in the uploads directory
    phase,         \* of the /analyze request: idle, uploaded, running, responded
    jobDescription,\* req.body.jobDescription
    files,         \* req.files: each upload with the path multer stored it at
    pc,            \* per file: where its pipeline (the map callback) stands
    extracted,     \* per file: how its extraction call will settle
    extractCalls,  \* per file: calls of extractTextFromPDF / extractTextFromDOCX
    oracleCalls,   \* per file: calls of groq.chat.completions.create
    outcome,       \* per file: the object its pipeline returned
    response,      \* what /analyze sent
    lastDownload,  \* the last GET /download/:filename and its answer
    scoreIn,       \* scoreResume called on its own: the key and the oracle
    scoreOut,      \* and what it returned
    app,           \* the App component's state: jobDescription, resumes, results, loading, error
    inflight,      \* the axios.post calls of analyzeResumes that have not settled
    clicks         \* how many analyze requests the App has started

vars == <<apiKey, uploads, phase, jobDescription, files, pc, extracted,
          extractCalls, oracleCalls, outcome, response, lastDownload,
          scoreIn, scoreOut, app, inflight, clicks>>

requestVars == <<jobDescription, files>>
scoreVars == <<scoreIn, scoreOut>>
appVars == <<app, inflight, clicks>>

\* useState(''), useState([]), useState([]), useState(false), useState(null)
AppInitial ==
    [jobDescription |-> "", resumes |-> <<>>, results |-> <<>>,
     loading |-> FALSE, error |-> "NULL"]

NoResponse == [status |-> 0, error |-> "", body |-> <<>>]
NoDownload == [filename |-> <<>>, status |-> 0]
NotScored == [called |-> FALSE, invoked |-> FALSE, settled |-> FALSE, result |-> Return(EmptyObject)]

N == Len(files)
Falsy(s) == s \in {"UNDEFINED", ""}

\* ------------------------------------------------------------ file system
\* fs.unlinkSync: removes the path, or throws when nothing is stored there or
\* the document resists removal.
unlinkSync(store, p, locked) ==
    IF p \notin store
    THEN [ok |-> FALSE, store |-> store, msg |-> <<"ENOENT: no such file or directory, unlink">>]
    ELSE IF locked
    THEN [ok |-> FALSE, store |-> store, msg |-> <<"EPERM: operation not permitted, unlink">>]
    ELSE [ok |-> TRUE, store |-> store \ {p}, msg |-> <<>>]

\* fs.existsSync
existsSync(store, p) == p \in store \/ IsDirectory(p)

\* extractTextFromPDF: readFileSync then pdfParse; whatever fails is rethrown
\* as the one parse error.
extractTextFromPDF(store, file) ==
    IF existsSync(store, file.path) /\ file.content = "pdf"
    THEN Return(JsString(<<"text of ">> \o file.originalname))
    ELSE Throw(<<"Failed to parse PDF file. It might be corrupted or malformed.">>)

\* extractTextFromDOCX: readFileSync then mammoth.extractRawText.
extractTextFromDOCX(store, file) ==
    IF existsSync(store, file.path) /\ file.content = "docx"
    THEN Return(JsString(<<"text of ">> \o file.originalname))
    ELSE Throw(<<"Failed to parse DOCX file. It might be corrupted or malformed.">>)

\* ------------------------------------------------- the per-file pipeline
FailureOutcome(file, text) ==
    [filename |-> JsString(file.originalname), error |-> JsString(text)]

\* { filename, savedFilename, ...analysis }
SuccessOutcome(file, analysis) ==
    Spread([filename |-> JsString(file.originalname),
            savedFilename |-> JsString(basename(file.path))],
           analysis)

Settled(store, p, o) == [store |-> store, pc |-> p, outcome |-> o]

\* catch (fileProcessingError): the document is removed if it is there, and the
\* outcome is the failure; an unlinkSync that throws here leaves the callback's
\* promise rejected.
CatchFile_SharedCounter(store, file, m) ==
    Settled(store \ {file.path}, "done",
            FailureOutcome(file, <<"Failed to process this resume: ", ToString(Cardinality(store))>> \o m))
CatchFile(store, file, m) ==
    IF existsSync(store, file.path)
    THEN LET u == unlinkSync(store, file.path, file.locked)
         IN  IF u.ok
             THEN Settled(u.store, "done",
                          FailureOutcome(file, <<"Failed to process this resume: ">> \o m))
             ELSE Settled(store, "rejected", EmptyObject)
    ELSE Settled(store, "done", FailureOutcome(file, <<"Failed to process this resume: ">> \o m))

FileExt(file) == toLowerCase(extname(file.originalname))
IsPdf(file) == FileExt(file) = <<".", "pdf">>
IsDocx(file) == FileExt(file) = <<".", "docx">>
Supported_AnyExtension(file) == TRUE
Supported(file) == IsPdf(file) \/ IsDocx(file)

\* The map callback up to its first await: a supported file's extraction is
\* called (its read of the stored document happens now); an unsupported file
\* is removed and its failure returned.
StartFile(store, file) ==
    IF Supported(file)
    THEN [store |-> store, pc |-> "extracting", outcome |-> EmptyObject,
          extracted |-> IF IsPdf(file) THEN extractTextFromPDF(store, file)
                        ELSE extractTextFromDOCX(store, file),
          calls |-> 1]
    ELSE LET u == unlinkSync(store, file.path, file.locked)
             r == IF u.ok
                  THEN Settled(u.store, "done",
                               FailureOutcome(file, <<"Unsupported file type. Only PDF and DOCX files are allowed.">>))
                  ELSE CatchFile(store, file, u.msg)
         IN  [store |-> r.store, pc |-> r.pc, outcome |-> r.outcome,
              extracted |-> Throw(<<>>), calls |-> 0]

\* req.files.map(async (file) => ...): the callbacks start in order.
RECURSIVE MapStart(_, _, _)
MapStart(fs, i, st) ==
    IF i > Len(fs) THEN st
    ELSE LET r == StartFile(st.store, fs[i])
         IN  MapStart(fs, i + 1,
                      [store |-> r.store,
                       pc |-> Append(st.pc, r.pc),
                       outcome |-> Append(st.outcome, r.outcome),
                       extracted |-> Append(st.extracted, r.extracted),
                       calls |-> Append(st.calls, r.calls)])

\* req.files.forEach(file => { if (existsSync) unlinkSync }) of the missing
\* job description branch; a throw ends the loop.
DeleteUploaded_Nothing(fs, i, store) == [ok |-> TRUE, store |-> store]
RECURSIVE DeleteUploaded(_, _, _)
DeleteUploaded(fs, i, store) ==
    IF i > Len(fs) THEN [ok |-> TRUE, store |-> store]
    ELSE IF existsSync(store, fs[i].path)
    THEN LET u == unlinkSync(store, fs[i].path, fs[i].locked)
         IN  IF u.ok THEN DeleteUploaded(fs, i + 1, u.store)
             ELSE [ok |-> FALSE, store |-> store]
    ELSE DeleteUploaded(fs, i + 1, store)

BadRequest(text) == [status |-> 400, error |-> text, body |-> <<>>]
ServerError ==
    [status |-> 500,
     error |-> "Internal server error occurred during resume analysis. Please try again.",
     body |-> <<>>]
Results_AsCompleted(list) ==
    LET idx == [i \in 1..Len(list) |-> i]
        order == SelectSeq(idx, LAMBDA i : ~Supported(files[i]))
                 \o SelectSeq(idx, LAMBDA i : Supported(files[i]))
    IN  [status |-> 200, error |-> "", body |-> [k \in 1..Len(list) |-> list[order[k]]]]
Results(list) == [status |-> 200, error |-> "", body |-> list]

\* ----------------------------------------------------------------- actions
Init ==
    /\ apiKey \in {"UNSET", "gsk_key"}
    /\ uploads = {EarlierDocument}
    /\ phase = "idle"
    /\ jobDescription = "UNDEFINED"
    /\ files = <<>>
    /\ pc = <<>>
    /\ extracted = <<>>
    /\ extractCalls = <<>>
    /\ oracleCalls = <<>>
    /\ outcome = <<>>
    /\ response = NoResponse
    /\ lastDownload = NoDownload
    /\ scoreIn = [key |-> "UNSET", oracle |-> OracleHang]
    /\ scoreOut = NotScored
    /\ app = AppInitial
    /\ inflight = {}
    /\ clicks = 0

\* upload.array('resumes'): multer stores every file of the request, file i
\* under the name made with suffix sfx[i], in order, and fills req.files and
\* req.body before the handler runs. A path written twice holds what was
\* written last.
Receive(jd, ups, sfx) ==
    /\ phase = "idle"
    /\ jobDescription' = jd
    /\ LET pathOf(i) == StoredPath(sfx[i], ups[i].originalname)
           stored(i) == ups[CHOOSE j \in 1..Len(ups) :
                              /\ pathOf(j) = pathOf(i)
                              /\ \A k \in (j + 1)..Len(ups) : pathOf(k) # pathOf(i)]
       IN  /\ files' = [i \in 1..Len(ups) |->
                           [originalname |-> ups[i].originalname,
                            path |-> pathOf(i),
                            content |-> stored(i).content,
                            locked |-> stored(i).locked,
                            oracle |-> ups[i].oracle]]
           /\ uploads' = uploads \cup {pathOf(i) : i \in 1..Len(ups)}
    /\ phase' = "uploaded"
    /\ pc' = [i \in 1..Len(ups) |-> "idle"]
    /\ extracted' = [i \in 1..Len(ups) |-> Throw(<<>>)]
    /\ extractCalls' = [i \in 1..Len(ups) |-> 0]
    /\ oracleCalls' = [i \in 1..Len(ups) |-> 0]
    /\ outcome' = [i \in 1..Len(ups) |-> EmptyObject]
    /\ UNCHANGED <<apiKey, response, lastDownload, scoreVars, appVars>>

\* if (!jobDescription): the uploaded files are deleted and 400 is sent; an
\* unlinkSync that throws lands in the handler's outer catch.
RejectJobDescription ==
    /\ phase = "uploaded"
    /\ Falsy(jobDescription)
    /\ LET d == DeleteUploaded(files, 1, uploads)
       IN  /\ uploads' = d.store
           /\ response' = IF d.ok
                          THEN BadRequest("Job description is required for analysis.")
                          ELSE ServerError
    /\ phase' = "responded"
    /\ UNCHANGED <<apiKey, requestVars, pc, extracted, extractCalls, oracleCalls,
                   outcome, lastDownload, scoreVars, appVars>>

\* if (!req.files || req.files.length === 0)
RejectNoFiles ==
    /\ phase = "uploaded"
    /\ ~Falsy(jobDescription)
    /\ N = 0
    /\ response' = BadRequest("No resume files uploaded for analysis.")
    /\ phase' = "responded"
    /\ UNCHANGED <<apiKey, uploads, requestVars, pc, extracted, extractCalls,
                   oracleCalls, outcome, lastDownload, scoreVars, appVars>>

\* Promise.all(req.files.map(...)): every callback runs to its first await.
StartPipelines ==
    /\ phase = "uploaded"
    /\ ~Falsy(jobDescription)
    /\ N > 0
    /\ LET st == MapStart(files, 1,
                          [store |-> uploads, pc |-> <<>>, outcome |-> <<>>,
                           extracted |-> <<>>, calls |-> <<>>])
       IN  /\ uploads' = st.store
           /\ pc' = st.pc
           /\ outcome' = st.outcome
           /\ extracted' = st.extracted
           /\ extractCalls' = st.calls
    /\ phase' = "running"
    /\ UNCHANGED <<apiKey, requestVars, oracleCalls, response, lastDownload, scoreVars, appVars>>

\* The await of the extraction settles: on success scoreResume is called (and
\* calls the oracle when the key is configured), on failure the catch runs.
ExtractSettle(i) ==
    /\ phase \in {"running", "responded"}
    /\ pc[i] = "extracting"
    /\ IF extracted[i].ok
       THEN /\ pc' = [pc EXCEPT ![i] = "scoring"]
            /\ oracleCalls' = [oracleCalls EXCEPT
                                 ![i] = @ + (IF InvokesOracle(apiKey) THEN 1 ELSE 0)]
            /\ UNCHANGED <<uploads, outcome>>
       ELSE LET r == CatchFile(uploads, files[i], extracted[i].msg)
            IN  /\ uploads' = r.store
                /\ pc' = [pc EXCEPT ![i] = r.pc]
                /\ outcome' = [outcome EXCEPT ![i] = r.outcome]
                /\ UNCHANGED oracleCalls
    /\ UNCHANGED <<apiKey, phase, requestVars, extracted, extractCalls, response,
                   lastDownload, scoreVars, appVars>>

\* The await of scoreResume settles (never, when the oracle was called and
\* hangs): the success outcome is returned, or the catch runs if it threw.
ScoreSettle(i) ==
    /\ phase \in {"running", "responded"}
    /\ pc[i] = "scoring"
    /\ ~InvokesOracle(apiKey) \/ files[i].oracle.kind # "hang"
    /\ LET a == scoreResume(apiKey, files[i].oracle)
           r == IF a.ok
                THEN Settled(uploads, "done", SuccessOutcome(files[i], a.val))
                ELSE CatchFile(uploads, files[i], a.msg)
       IN  /\ uploads' = r.store
           /\ pc' = [pc EXCEPT ![i] = r.pc]
           /\ outcome' = [outcome EXCEPT ![i] = r.outcome]
    /\ UNCHANGED <<apiKey, phase, requestVars, extracted, extractCalls, oracleCalls,
                   response, lastDownload, scoreVars, appVars>>

\* Promise.all resolved: res.json(results), in the order of req.files.
RespondResults ==
    /\ phase = "running"
    /\ \A i \in 1..N : pc[i] = "done"
    /\ response' = Results(outcome)
    /\ phase' = "responded"
    /\ UNCHANGED <<apiKey, uploads, requestVars, pc, extracted, extractCalls,
                   oracleCalls, outcome, lastDownload, scoreVars, appVars>>

\* Promise.all rejected (a callback's promise rejected): the outer catch sends
\* 500 while the other callbacks go on.
RespondServerError ==
    /\ phase = "running"
    /\ \E i \in 1..N : pc[i] = "rejected"
    /\ response' = ServerError
    /\ phase' = "responded"
    /\ UNCHANGED <<apiKey, uploads, requestVars, pc, extracted, extractCalls,
                   oracleCalls, outcome, lastDownload, scoreVars, appVars>>

\* filename.includes('..')
IncludesDotDot(fn) ==
    \/ \E i \in 1..Len(fn) : fn[i] = ".."
    \/ \E i \in 1..(Len(fn) - 1) : fn[i] = "." /\ fn[i + 1] = "."

\* res.download(filePath, callback): the document is sent, or the callback
\* gets an error and answers 404 for ENOENT and 500 for any other (a directory
\* cannot be sent: EISDIR).
resDownload(store, p) ==
    IF p \in store THEN 200
    ELSE IF IsDirectory(p) THEN 500
    ELSE 404

\* The file names a client may ask /download for.
DownloadNames ==
    {basename(p) : p \in uploads} \cup {basename(files[i].path) : i \in 1..N}
    \cup {<<"nosuch", ".", "pdf">>, <<"..", "/", "index.js">>, <<".">>}

\* GET /download/:filename, asked by a client that has the batch's response.
Download(fn) ==
    /\ phase = "responded"
    /\ lastDownload' =
          [filename |-> fn,
           status |-> IF fn = <<>> \/ IncludesDotDot(fn)
                         \/ ~existsSync(uploads, JoinUploads(fn))
                      THEN 404 ELSE resDownload(uploads, JoinUploads(fn))]
    /\ UNCHANGED <<apiKey, uploads, phase, requestVars, pc, extracted, extractCalls,
                   oracleCalls, outcome, response, scoreVars, appVars>>

\* The suffixes of a request whose Date.now() and Math.random() values differ
\* from file to file and from those of earlier requests.
DistinctSuffixes(ups) == [i \in 1..Len(ups) |-> i]

Next ==
    \/ /\ phase = "idle"
       /\ \E jd \in JobDescriptions, ups \in SeqsUpTo(UploadsWith(apiKey), MaxFiles) :
             Receive(jd, ups, DistinctSuffixes(ups))
    \/ RejectJobDescription
    \/ RejectNoFiles
    \/ StartPipelines
    \/ \E i \in 1..N : ExtractSettle(i)
    \/ \E i \in 1..N : ScoreSettle(i)
    \/ RespondResults
    \/ RespondServerError
    \/ \E fn \in DownloadNames : Download(fn)

Spec == Init /\ [][Next]_vars

\* ------------------------------------------- stored names that may repeat
\* Date.now() + '-' + Math.round(Math.random() * 1E9) is a clock reading and a
\* random integer: nothing keeps two files, of one request or of two, from
\* drawing the same suffix. Here every file draws its suffix freely, 0 being
\* the suffix the earlier request's document was stored with.
Suffixes == {0, 1}

NextCollide ==
    \/ /\ phase = "idle"
       /\ \E jd \in JobDescriptions, ups \in SeqsUpTo(UploadsWith(apiKey), MaxFiles) :
             \E sfx \in [1..Len(ups) -> Suffixes] : Receive(jd, ups, sfx)
    \/ RejectJobDescription
    \/ RejectNoFiles
    \/ StartPipelines
    \/ \E i \in 1..N : ExtractSettle(i)
    \/ \E i \in 1..N : ScoreSettle(i)
    \/ RespondResults
    \/ RespondServerError
    \/ \E fn \in DownloadNames : Download(fn)

SpecCollide == Init /\ [][NextCollide]_vars

\* ------------------------------------------------- scoreResume on its own
\* Raw texts the oracle may return: optional score, goodPoints, badPoints and
\* one further member, separated by commas or (malformed) by whitespace, inside
\* braces or without any, with up to MaxAffix tokens before and after.
ScoreMembers ==
    { <<>>,
      <<Pair("score", NumLit(FALSE, 72, 0))>>,
      <<Pair("score", NumLit(FALSE, 150, 0))>>,
      <<Pair("score", NumLit(TRUE, 5, 0))>>,
      <<Pair("score", NumLit(FALSE, 72, 5))>>,
      <<Pair("score", StrLit(<<"85">>))>> }

GoodMembers ==
    { <<>>,
      <<Pair("goodPoints", StrLit(<<"x">>))>>,
      <<Pair("goodPoints", StrLit(<<"a", "ESC_QUOTE", "b", "ESC_N">>))>>,
      <<Pair("goodPoints", NullLit)>> }

BadMembers ==
    { <<>>,
      <<Pair("badPoints", StrLit(<<"y">>))>>,
      <<Pair("badPoints", BareLit)>> }

ExtraMembers ==
    { <<>>, <<Pair("error", StrLit(<<"e">>))>> }

RECURSIVE Join(_, _)
Join(ms, sep) ==
    IF Len(ms) <= 1 THEN ms ELSE <<ms[1], sep>> \o Join(Tail(ms), sep)

\* The members the oracle writes, inside braces or (an answer that is not an
\* object at all) without them.
Bodies ==
    {<<>>} \cup
    { <<LB>> \o Join(s \o g \o b \o x, sep) \o <<RB>> :
        s \in ScoreMembers, g \in GoodMembers, b \in BadMembers,
        x \in ExtraMembers, sep \in {COMMA, WS} }
    \cup
    { Join(s \o g \o b, sep) :
        s \in ScoreMembers, g \in GoodMembers, b \in BadMembers, sep \in {COMMA, WS} }

Affixes == SeqsUpTo({PROSE, LB, RB, WS}, MaxAffix)

RawTexts == { pre \o body \o post : pre \in Affixes, body \in Bodies, post \in Affixes }

ScoreOracles ==
    { OracleThrow(<<"Connection error.">>), OracleThrow(<<"Request timed out.">>),
      OracleHang, OracleReply("missing", <<>>), OracleReply("empty", <<>>),
      OracleReply("nocontent", <<>>) }
    \cup { OracleReply("text", t) : t \in RawTexts }

\* With a key every oracle behaviour is tried; without one the oracle is not
\* consulted, and the batch behaviours stand for what it would have done.
ScoreInputs ==
    { [key |-> "gsk_key", oracle |-> o] : o \in ScoreOracles }
    \cup { [key |-> k, oracle |-> o] : k \in {"UNSET", ""}, o \in BatchOracles }

NotSettled == Return(EmptyObject)

InitScore ==
    /\ apiKey = "UNSET"
    /\ uploads = {EarlierDocument}
    /\ phase = "idle"
    /\ jobDescription = "UNDEFINED"
    /\ files = <<>>
    /\ pc = <<>>
    /\ extracted = <<>>
    /\ extractCalls = <<>>
    /\ oracleCalls = <<>>
    /\ outcome = <<>>
    /\ response = NoResponse
    /\ lastDownload = NoDownload
    /\ scoreIn \in ScoreInputs
    /\ scoreOut = NotScored
    /\ app = AppInitial
    /\ inflight = {}
    /\ clicks = 0

mainVars == <<apiKey, uploads, phase, jobDescription, files, pc, extracted,
              extractCalls, oracleCalls, outcome, response, lastDownload>>

\* scoreResume is called: the prompt is built, the key is checked, and with a
\* key the oracle is invoked.
ScoreCall ==
    /\ ~scoreOut.called
    /\ scoreOut' = [called |-> TRUE, invoked |-> InvokesOracle(scoreIn.key),
                    settled |-> FALSE, result |-> NotSettled]
    /\ UNCHANGED <<mainVars, scoreIn, appVars>>

\* Its promise settles, unless the oracle was invoked and never answers.
ScoreReturn ==
    /\ scoreOut.called
    /\ ~scoreOut.settled
    /\ ~scoreOut.invoked \/ scoreIn.oracle.kind # "hang"
    /\ scoreOut' = [scoreOut EXCEPT !.settled = TRUE,
                                    !.result = scoreResume(scoreIn.key, scoreIn.oracle)]
    /\ UNCHANGED <<mainVars, scoreIn, appVars>>

NextScore == ScoreCall \/ ScoreReturn

SpecScore == InitScore /\ [][NextScore]_vars

\* ------------------------------------------------------ the App component
\* What the user may type as job description and select as resumes.
TypedTexts == {"", " ", "Backend engineer"}
SelectableFiles ==
    {<<>>, <<<<"cv", ".", "pdf">>>>, <<<<"cv", ".", "pdf">>, <<"cv", ".", "docx">>>>}

\* disabled={loading || !jobDescription || resumes.length === 0}
ButtonDisabled_IgnoresLoading(a) == a.jobDescription = "" \/ Len(a.resumes) = 0
ButtonDisabled(a) == a.loading \/ a.jobDescription = "" \/ Len(a.resumes) = 0

\* setLoading(true); setError(null); setResults([])
Started_KeepsError(a) == [a EXCEPT !.loading = TRUE, !.results = <<>>]
Started(a) == [a EXCEPT !.loading = TRUE, !.error = "NULL", !.results = <<>>]

\* response.data of a request that /analyze answered with a result list: one
\* outcome per resume sent.
ResponseData(r) ==
    [i \in 1..Len(r.resumes) |-> [filename |-> r.resumes[i], request |-> r.id]]

\* try { setResults(response.data) } finally { setLoading(false) }
Resolved(a, data) == [a EXCEPT !.results = data, !.loading = FALSE]

\* catch (err) { setError(...) } finally { setLoading(false) }
Rejected(a) ==
    [a EXCEPT !.error = "Failed to analyze resumes. Please try again. Ensure the backend server is running and accessible.",
              !.loading = FALSE]

InitUI ==
    /\ apiKey = "UNSET"
    /\ uploads = {EarlierDocument}
    /\ phase = "idle"
    /\ jobDescription = "UNDEFINED"
    /\ files = <<>>
    /\ pc = <<>>
    /\ extracted = <<>>
    /\ extractCalls = <<>>
    /\ oracleCalls = <<>>
    /\ outcome = <<>>
    /\ response = NoResponse
    /\ lastDownload = NoDownload
    /\ scoreIn = [key |-> "UNSET", oracle |-> OracleHang]
    /\ scoreOut = NotScored
    /\ app = AppInitial
    /\ inflight = {}
    /\ clicks = 0

\* onChange of the textarea
SetJobDescription(v) ==
    /\ app' = [app EXCEPT !.jobDescription = v]
    /\ UNCHANGED <<mainVars, scoreVars, inflight, clicks>>

\* handleFileChange
HandleFileChange(fs) ==
    /\ app' = [app EXCEPT !.resumes = fs]
    /\ UNCHANGED <<mainVars, scoreVars, inflight, clicks>>

\* A click on the Analyze button, which a disabled button does not deliver:
\* analyzeResumes runs up to its await of axios.post.
ClickAnalyze ==
    /\ ~ButtonDisabled(app)
    /\ clicks < MaxClicks
    /\ app' = Started(app)
    /\ clicks' = clicks + 1
    /\ inflight' = inflight \cup {[id |-> clicks + 1,
                                   jobDescription |-> app.jobDescription,
                                   resumes |-> app.resumes]}
    /\ UNCHANGED <<mainVars, scoreVars>>

\* axios.post resolved (a 2xx answer).
AxiosResolve(r) ==
    /\ r \in inflight
    /\ app' = Resolved(app, ResponseData(r))
    /\ inflight' = inflight \ {r}
    /\ UNCHANGED <<mainVars, scoreVars, clicks>>

\* axios.post rejected (400, 500, or no answer from the network).
AxiosReject(r) ==
    /\ r \in inflight
    /\ app' = Rejected(app)
    /\ inflight' = inflight \ {r}
    /\ UNCHANGED <<mainVars, scoreVars, clicks>>

NextUI ==
    \/ \E v \in TypedTexts : SetJobDescription(v)
    \/ \E fs \in SelectableFiles : HandleFileChange(fs)
    \/ ClickAnalyze
    \/ \E r \in inflight : AxiosResolve(r)
    \/ \E r \in inflight : AxiosReject(r)

SpecUI == InitUI /\ [][NextUI]_vars

\* ------------------------------------------------------------------ claims
\* The request passed both validations.
Validated == ~Falsy(jobDescription) /\ N > 0

\* An outcome of the success shape / of the failure shape, by its keys.
IsSuccess(o) == DOMAIN o # {} /\ "error" \notin DOMAIN o
IsFailure(o) == "error" \in DOMAIN o /\ "savedFilename" \notin DOMAIN o

FileSettled(i) == pc[i] \in {"done", "rejected"}
LockedFiles == {i \in 1..N : files[i].locked}

\* C1: every /analyze request that passes validation is answered with a result
\* list of exactly N outcomes, one per input file.
C1_OneOutcomePerFile ==
    (phase = "responded" /\ Validated) =>
        /\ Len(response.body) = N
        /\ \A i \in 1..N : DOMAIN response.body[i] # {}

\* C2: a batch that passed validation is never answered with a failed batch
\* response; a failed response is sent only for the two validation errors.
C2_OnlyValidationFailsTheBatch ==
    (response.status \in {400, 500}) => ~Validated

\* C3: once the batch has completed, a file whose extension is neither .pdf nor
\* .docx has a Failure outcome, its stored document is gone, and neither
\* extraction nor the oracle was invoked for it.
C3_UnsupportedRemoved ==
    \A i \in 1..N :
        (phase = "responded" /\ Validated /\ ~(IsPdf(files[i]) \/ IsDocx(files[i]))) =>
            /\ IsFailure(outcome[i])
            /\ ~existsSync(uploads, files[i].path)
            /\ extractCalls[i] = 0
            /\ oracleCalls[i] = 0

\* C4 as stated: after a validation error the set of stored documents is what
\* it was when the handler was entered (no uploaded document deleted).
C4_StoreUnchanged ==
    (phase = "responded" /\ ~Validated) =>
        uploads = {EarlierDocument} \cup {files[i].path : i \in 1..N}

\* C4 as amended: after a missing/empty job description or no files, no
\* per-file work was done (no extraction, no oracle call, no outcome) and no
\* document of another request was touched; with no files the store is
\* unchanged and 400 is sent; with a missing/empty job description the
\* request's own uploaded documents are deleted in order and 400 is sent,
\* unless a removal throws: then the documents from that one on stay and 500
\* is sent.
C4_ValidationAmended ==
    (phase = "responded" /\ ~Validated) =>
        /\ \A i \in 1..N : /\ extractCalls[i] = 0
                           /\ oracleCalls[i] = 0
                           /\ pc[i] = "idle"
                           /\ outcome[i] = EmptyObject
        /\ EarlierDocument \in uploads
        /\ ~Falsy(jobDescription) =>
              /\ uploads = {EarlierDocument}
              /\ response.status = 400
              /\ response.error = "No resume files uploaded for analysis."
        /\ (Falsy(jobDescription) /\ LockedFiles = {}) =>
              /\ uploads = {EarlierDocument}
              /\ response.status = 400
              /\ response.error = "Job description is required for analysis."
        /\ (Falsy(jobDescription) /\ LockedFiles # {}) =>
              /\ uploads = {EarlierDocument}
                             \cup {files[i].path : i \in First(LockedFiles)..N}
              /\ response.status = 500

\* C4's case: a request without job description whose two files were deleted.
C4_Witness ==
    /\ phase = "responded"
    /\ Falsy(jobDescription)
    /\ N = 2
    /\ response.status = 400
    /\ \A i \in 1..N : ~existsSync(uploads, files[i].path)

\* C5: when the batch response has been sent, every Success outcome's stored
\* document is in the uploads store under the savedFilename the outcome
\* reports (so that /download finds it).
C5_SuccessDocumentDownloadable ==
    response.status = 200 =>
        \A i \in 1..Len(response.body) :
            IsSuccess(response.body[i]) =>
                /\ existsSync(uploads, files[i].path)
                /\ existsSync(uploads, JoinUploads(Get(response.body[i], "savedFilename").str))

\* C6: when the extraction of a supported file throws, the pipeline settles
\* with the document removed and a Failure outcome carrying the message.
C6_ExtractionFailureCaught ==
    \A i \in 1..N :
        (FileSettled(i) /\ (IsPdf(files[i]) \/ IsDocx(files[i])) /\ ~extracted[i].ok) =>
            /\ pc[i] = "done"
            /\ ~existsSync(uploads, files[i].path)
            /\ IsFailure(outcome[i])
            /\ outcome[i].error =
                 JsString(<<"Failed to process this resume: ">> \o extracted[i].msg)

\* The oracle failed: it threw, gave no content, or gave a text from which no
\* object with the three typed keys can be sliced and parsed.
OracleFailed(o) ==
    \/ o.kind = "throw"
    \/ /\ o.kind = "reply"
       /\ \/ o.choices # "text"
          \/ LET e == lastIndexOf(trim(o.text), RB)
                 b == indexOf(trim(o.text), LB)
             IN  \/ b = 0 \/ e = 0
                 \/ ~JsonWellFormed(substring(trim(o.text), b, e))
                 \/ \E k \in {"score", "goodPoints", "badPoints"} :
                       k \notin DOMAIN JsonObject(substring(trim(o.text), b, e))

IsSubSeq(a, b) == \E k \in 0..(Len(b) - Len(a)) : SubSeq(b, k + 1, k + Len(a)) = a

C10_ScoreInRange ==
    response.status = 200 =>
        \A i \in 1..Len(response.body) :
            IsSuccess(response.body[i]) =>
                /\ Get(response.body[i], "score").ty = "number"
                /\ Get(response.body[i], "score").num % 10 = 0
                /\ Get(response.body[i], "score").num \in 0..1000

\* The JSON objects with a numeric score and string goodPoints and badPoints
\* (and possibly a further key), written as JSON requires.
ThreeKeyJson ==
    { <<LB>> \o Join(s \o g \o b \o x, COMMA) \o <<RB>> :
        s \in {m \in ScoreMembers : m # <<>> /\ m[1].val.lit = "num"},
        g \in {m \in GoodMembers : m # <<>> /\ m[1].val.lit = "str"},
        b \in {m \in BadMembers : m # <<>> /\ m[1].val.lit = "str"},
        x \in ExtraMembers }

\* The literal written for key k in a text (the first one).
LiteralOf(t, k) ==
    t[First({i \in 1..Len(t) : t[i].tok = "pair" /\ t[i].key = k})].val

\* What a JSON number / a JSON string literal denotes.
NumberDenoted(l) == IF l.neg THEN 0 - (l.int * 10 + l.frac) ELSE l.int * 10 + l.frac
TextDenoted(l) ==
    [i \in 1..Len(l.chars) |->
        IF l.chars[i] = "ESC_QUOTE" THEN "QUOTE"
        ELSE IF l.chars[i] = "ESC_N" THEN "NEWLINE" ELSE l.chars[i]]

\* The call was made with a key and the oracle's reply carried a text.
RepliedText ==
    /\ scoreIn.key = "gsk_key"
    /\ scoreIn.oracle.kind = "reply"
    /\ scoreIn.oracle.choices = "text"

\* C11: when the oracle's text is exactly a valid JSON object with a numeric
\* score and string goodPoints and badPoints, scoreResume returns the number
\* and the two strings that the JSON denotes, unchanged.
C11_StrictPathUnchanged ==
    (scoreOut.settled /\ RepliedText /\ scoreIn.oracle.text \in ThreeKeyJson) =>
        /\ scoreOut.result.ok
        /\ scoreOut.result.val.score =
              JsNumber(NumberDenoted(LiteralOf(scoreIn.oracle.text, "score")))
        /\ scoreOut.result.val.goodPoints =
              JsString(TextDenoted(LiteralOf(scoreIn.oracle.text, "goodPoints")))
        /\ scoreOut.result.val.badPoints =
              JsString(TextDenoted(LiteralOf(scoreIn.oracle.text, "badPoints")))

\* C11's case: a JSON object with a fractional score and escapes in goodPoints
\* was interpreted.
C11_Witness ==
    /\ scoreOut.settled
    /\ RepliedText
    /\ scoreIn.oracle.text =
          <<LB, Pair("score", NumLit(FALSE, 72, 5)), COMMA,
            Pair("goodPoints", StrLit(<<"a", "ESC_QUOTE", "b", "ESC_N">>)), COMMA,
            Pair("badPoints", StrLit(<<"y">>)), RB>>
    /\ scoreOut.result.val.score = JsNumber(725)

\* C12: when the oracle's text is a valid three-key JSON object with arbitrary
\* text before and/or after it, scoreResume returns the same three values as
\* for the JSON object alone.
C12_ProseIgnored ==
    (scoreOut.settled /\ RepliedText) =>
        \A body \in ThreeKeyJson : \A pre \in Affixes : \A post \in Affixes :
            scoreIn.oracle.text = pre \o body \o post =>
                LET alone == scoreResume(scoreIn.key, OracleReply("text", body))
                IN  /\ scoreOut.result.ok = alone.ok
                    /\ \A k \in {"score", "goodPoints", "badPoints"} :
                          Get(scoreOut.result.val, k) = Get(alone.val, k)

\* The raw text has no brace at all.
NoBraces(t) == \A i \in 1..Len(t) : t[i] # LB /\ t[i] # RB

\* C13 as stated: for a raw text without any brace scoreResume does not raise
\* and returns score 0 and two non-empty placeholder strings.
C13_NoBracesPlaceholders ==
    (scoreOut.settled /\ RepliedText /\ NoBraces(scoreIn.oracle.text)) =>
        /\ scoreOut.result.ok
        /\ scoreOut.result.val.score = JsNumber(0)
        /\ scoreOut.result.val.goodPoints =
              JsString(<<"AI response format issue: Good points could not be extracted.">>)
        /\ scoreOut.result.val.badPoints =
              JsString(<<"AI response format issue: Bad points could not be extracted.">>)

\* The pairs of a text that the pattern of a key recovers: "score": followed
\* by digits, "goodPoints"/"badPoints": followed by a quoted text.
Recoverable(t, k) ==
    {i \in 1..Len(t) :
        /\ t[i].tok = "pair"
        /\ t[i].key = k
        /\ IF k = "score" THEN t[i].val.lit = "num" /\ ~t[i].val.neg
           ELSE t[i].val.lit = "str"}

\* Of a quoted text recovered by pattern only \" is unescaped.
TextRecovered(l) ==
    [i \in 1..Len(l.chars) |-> IF l.chars[i] = "ESC_QUOTE" THEN "QUOTE" ELSE l.chars[i]]

\* C13 as amended: for a raw text without any brace scoreResume does not raise
\* and returns three typed values, each key recovered by its pattern where the
\* text has it (the integer digits of the score, the quoted text of
\* goodPoints/badPoints) and otherwise score 0 or the non-empty placeholder of
\* the key; with none of the three patterns in the text that is score 0 and the
\* two placeholders.
C13_NoBracesRecovered ==
    (scoreOut.settled /\ RepliedText /\ NoBraces(scoreIn.oracle.text)) =>
        LET t == trim(scoreIn.oracle.text)
            r == scoreOut.result
        IN  /\ r.ok
            /\ DOMAIN r.val = {"score", "goodPoints", "badPoints"}
            /\ r.val.score =
                  IF Recoverable(t, "score") = {} THEN JsNumber(0)
                  ELSE JsNumber(t[First(Recoverable(t, "score"))].val.int * 10)
            /\ r.val.goodPoints =
                  IF Recoverable(t, "goodPoints") = {}
                  THEN JsString(<<"AI response format issue: Good points could not be extracted.">>)
                  ELSE JsString(TextRecovered(t[First(Recoverable(t, "goodPoints"))].val))
            /\ r.val.badPoints =
                  IF Recoverable(t, "badPoints") = {}
                  THEN JsString(<<"AI response format issue: Bad points could not be extracted.">>)
                  ELSE JsString(TextRecovered(t[First(Recoverable(t, "badPoints"))].val))

\* C13's case: prose without braces that still holds "score": 72 and a quoted
\* goodPoints was interpreted, and the score was recovered.
C13_Witness ==
    /\ scoreOut.settled
    /\ RepliedText
    /\ scoreIn.oracle.text =
          <<PROSE, Pair("score", NumLit(FALSE, 72, 0)), WS,
            Pair("goodPoints", StrLit(<<"x">>))>>
    /\ scoreOut.result.val.score = JsNumber(720)

\* C14: every outcome names the original filename of its file, and a Success
\* outcome names the basename of the path its document is stored under,
\* whatever the oracle answered.
C14_Traceable ==
    \A i \in 1..N :
        pc[i] = "done" =>
            /\ Get(outcome[i], "filename") = JsString(files[i].originalname)
            /\ "savedFilename" \in DOMAIN outcome[i] =>
                  outcome[i].savedFilename = JsString(basename(files[i].path))

\* The two shapes of an outcome.
SuccessShape(o) ==
    /\ DOMAIN o = {"filename", "savedFilename", "score", "goodPoints", "badPoints"}
    /\ o.score.ty = "number"
    /\ o.goodPoints.ty = "string"
    /\ o.badPoints.ty = "string"
FailureShape(o) ==
    /\ DOMAIN o = {"filename", "error"}
    /\ o.error.ty = "string"

\* C15: every element of a result list is of the Success shape (five fields,
\* no error) or of the Failure shape (filename and error only), and it has an
\* error field exactly when the document stored for its file was removed.
C15_TwoShapes ==
    (phase = "responded" /\ response.status = 200) =>
        \A i \in 1..N :
            /\ SuccessShape(response.body[i]) \/ FailureShape(response.body[i])
            /\ "error" \in DOMAIN response.body[i] <=> ~existsSync(uploads, files[i].path)

\* The batch run with one fixed schedule: the callbacks start in order, then
\* each pipeline's awaits settle before the next pipeline's, in the order of
\* req.files.
RECURSIVE SettleInOrder(_, _, _)
SettleInOrder(fs, i, st) ==
    IF i > Len(fs) THEN st
    ELSE LET r == IF st.pc[i] # "extracting"
                  THEN Settled(st.store, st.pc[i], st.outcome[i])
                  ELSE IF ~st.extracted[i].ok
                  THEN CatchFile(st.store, fs[i], st.extracted[i].msg)
                  ELSE IF InvokesOracle(apiKey) /\ fs[i].oracle.kind = "hang"
                  THEN Settled(st.store, "scoring", EmptyObject)
                  ELSE LET a == scoreResume(apiKey, fs[i].oracle)
                       IN  IF a.ok
                           THEN Settled(st.store, "done", SuccessOutcome(fs[i], a.val))
                           ELSE CatchFile(st.store, fs[i], a.msg)
         IN  SettleInOrder(fs, i + 1,
                           [st EXCEPT !.store = r.store,
                                      !.pc[i] = r.pc,
                                      !.outcome[i] = r.outcome])

InOrder ==
    SettleInOrder(files, 1,
                  MapStart(files, 1,
                           [store |-> {EarlierDocument} \cup {files[i].path : i \in 1..N},
                            pc |-> <<>>, outcome |-> <<>>, extracted |-> <<>>,
                            calls |-> <<>>]))

\* C16: the result list has the outcome of the i-th uploaded file at position
\* i, in whatever order the pipelines completed.
C16_OrderPreserved ==
    (phase = "responded" /\ response.status = 200) =>
        /\ Len(response.body) = N
        /\ \A i \in 1..N :
              /\ response.body[i] = outcome[i]
              /\ response.body[i] = InOrder.outcome[i]

\* C16's case: the second file (unsupported) completed before the first one
\* was scored, and the list still has the first file's success first.
C16_Witness ==
    /\ phase = "responded"
    /\ response.status = 200
    /\ N = 2
    /\ Supported(files[1])
    /\ ~Supported(files[2])
    /\ "score" \in DOMAIN response.body[1]
    /\ "error" \in DOMAIN response.body[2]
    /\ files[1].originalname # files[2].originalname

\* C17: within a pipeline extraction and the oracle are each invoked at most
\* once; the oracle only after the file's extraction succeeded, never for an
\* unsupported file or one whose extraction failed; and an analysis is in the
\* outcome only after scoring returned.
C17_StagesOrdered ==
    \A i \in 1..N :
        /\ extractCalls[i] <= 1
        /\ oracleCalls[i] <= 1
        /\ oracleCalls[i] = 1 =>
              /\ extractCalls[i] = 1
              /\ extracted[i].ok
              /\ pc[i] \in {"scoring", "done", "rejected"}
        /\ ~(IsPdf(files[i]) \/ IsDocx(files[i])) =>
              extractCalls[i] = 0 /\ oracleCalls[i] = 0
        /\ (extractCalls[i] = 1 /\ ~extracted[i].ok) => oracleCalls[i] = 0
        /\ "score" \in DOMAIN outcome[i] =>
              /\ pc[i] = "done"
              /\ extractCalls[i] = 1
              /\ extracted[i].ok
              /\ InvokesOracle(apiKey) =>
                    oracleCalls[i] = 1 /\ files[i].oracle.kind # "hang"

\* C17's case: a batch whose first file was extracted, scored by the oracle
\* and answered, and whose second file failed extraction without any oracle
\* call.
C17_Witness ==
    /\ response.status = 200
    /\ N = 2
    /\ oracleCalls[1] = 1
    /\ "score" \in DOMAIN outcome[1]
    /\ extractCalls[2] = 1
    /\ ~extracted[2].ok
    /\ oracleCalls[2] = 0
    /\ "error" \in DOMAIN outcome[2]

\* A step of the /analyze handler or of one of its pipelines.
HandlerStep ==
    \/ \E i \in 1..N : ExtractSettle(i)
    \/ \E i \in 1..N : ScoreSettle(i)
    \/ RespondResults
    \/ RespondServerError

\* C18: a validated batch always gets its response, even when the oracle never
\* returns: while the response is outstanding some step of the handler is still
\* to come (a call that hangs is ended by a timeout and treated as a transport
\* error).
C18_BatchResponds ==
    phase = "running" => ENABLED HandlerStep

\* No await of pipeline i is outstanding that can still settle.
AtRest(i) ==
    \/ pc[i] \in {"done", "rejected"}
    \/ pc[i] = "scoring" /\ InvokesOracle(apiKey) /\ files[i].oracle.kind = "hang"

\* C19: whatever the interleaving of the pipelines' steps, each file's
\* outcome, the documents left in the store and the response are those of the
\* one schedule that settles the pipelines in the order of the files.
C19_Independent ==
    (phase \in {"running", "responded"} /\ Validated) =>
        /\ \A i \in 1..N :
              (pc[i] \in {"done", "rejected"}) =>
                  /\ pc[i] = InOrder.pc[i]
                  /\ outcome[i] = InOrder.outcome[i]
        /\ (\A i \in 1..N : AtRest(i)) =>
              /\ pc = InOrder.pc
              /\ outcome = InOrder.outcome
              /\ uploads = InOrder.store
        /\ phase = "responded" =>
              response = IF \E i \in 1..N : InOrder.pc[i] = "rejected"
                         THEN ServerError
                         ELSE Results(InOrder.outcome)

\* C19's case: an answered batch of two files, the first failing extraction
\* (its document removed), the second scored (its document kept).
C19_Witness ==
    /\ phase = "responded"
    /\ response.status = 200
    /\ N = 2
    /\ extractCalls[1] = 1
    /\ "error" \in DOMAIN outcome[1]
    /\ "score" \in DOMAIN outcome[2]
    /\ uploads = {EarlierDocument, files[2].path}

\* C20: no two uploaded files, of this request or of this and an earlier one,
\* are stored under the same path, so that a pipeline removing its own document
\* removes neither the document of another request nor that of a Success
\* outcome.
C20_ExclusivePaths ==
    /\ \A i \in 1..N : \A j \in 1..N : i # j => files[i].path # files[j].path
    /\ \A i \in 1..N : files[i].path # EarlierDocument
    /\ EarlierDocument \in uploads
    /\ \A i \in 1..N :
          (pc[i] = "done" /\ "score" \in DOMAIN outcome[i]) =>
              existsSync(uploads, files[i].path)

\* C21: GET /download/:filename answers not-found for every handle that names
\* no currently stored document and for every handle containing '..'; it sends
\* only a document of the uploads store; and it leaves the stored documents as
\* they are.
C21_DownloadSafe ==
    [][lastDownload' # lastDownload =>
          LET fn == lastDownload'.filename
          IN  /\ (IncludesDotDot(fn) \/ [dir |-> uploadsDir, base |-> fn] \notin uploads) =>
                    lastDownload'.status = 404
              /\ lastDownload'.status = 200 =>
                    [dir |-> uploadsDir, base |-> fn] \in uploads /\ ~IncludesDotDot(fn)
              /\ uploads' = uploads]_vars

\* The strict path failed on the oracle's text: no pair of braces, or a slice
\* that JSON.parse rejects.
StrictFailed == ~StrictParse(TextResponse(scoreIn.oracle)).ok

\* C22: whenever strict parsing fails on a raw text, the result is the
\* fallback's: exactly three typed values, each recovered by its pattern or
\* replaced by score 0 / the key's placeholder; the type check does not reject
\* it (the result is not the degraded one of the catch).
C22_FallbackTypeValid ==
    (scoreOut.settled /\ RepliedText /\ StrictFailed) =>
        LET t == trim(scoreIn.oracle.text)
            r == scoreOut.result
        IN  /\ r.ok
            /\ DOMAIN r.val = {"score", "goodPoints", "badPoints"}
            /\ r.val.score.ty = "number"
            /\ r.val.goodPoints.ty = "string"
            /\ r.val.badPoints.ty = "string"
            /\ r.val.goodPoints # JsString(<<"An error occurred during evaluation.">>)
            /\ r.val.score =
                  IF Recoverable(t, "score") = {} THEN JsNumber(0)
                  ELSE JsNumber(t[First(Recoverable(t, "score"))].val.int * 10)
            /\ r.val.goodPoints =
                  IF Recoverable(t, "goodPoints") = {}
                  THEN JsString(<<"AI response format issue: Good points could not be extracted.">>)
                  ELSE JsString(TextRecovered(t[First(Recoverable(t, "goodPoints"))].val))
            /\ r.val.badPoints =
                  IF Recoverable(t, "badPoints") = {}
                  THEN JsString(<<"AI response format issue: Bad points could not be extracted.">>)
                  ELSE JsString(TextRecovered(t[First(Recoverable(t, "badPoints"))].val))

\* C22's case: an object whose members lack their commas and whose goodPoints
\* is null: the strict path failed, the score was recovered and goodPoints
\* replaced.
C22_Witness ==
    /\ scoreOut.settled
    /\ RepliedText
    /\ StrictFailed
    /\ scoreIn.oracle.text =
          <<LB, Pair("score", NumLit(FALSE, 72, 0)), WS, Pair("goodPoints", NullLit), WS,
            Pair("badPoints", StrLit(<<"y">>)), RB>>
    /\ scoreOut.result.val.score = JsNumber(720)
    /\ scoreOut.result.val.goodPoints =
          JsString(<<"AI response format issue: Good points could not be extracted.">>)

\* C23: once every analyzeResumes call has finished, loading is false and
\* either results holds the response of the request and error is null, or
\* error is set and results is empty; an error and non-empty results are never
\* shown together.
C23_RequestStateMachine ==
    /\ ~(app.error # "NULL" /\ app.results # <<>>)
    /\ (clicks > 0 /\ inflight = {}) =>
          /\ ~app.loading
          /\ \/ /\ app.error = "NULL"
                /\ app.results # <<>>
                /\ \A i \in 1..Len(app.results) : app.results[i].request = clicks
             \/ /\ app.error # "NULL"
                /\ app.results = <<>>

\* C23's case: a request failed, the next one succeeded, and its results are
\* shown without the earlier error.
C23_Witness ==
    /\ clicks = 2
    /\ inflight = {}
    /\ app.error = "NULL"
    /\ Len(app.results) = 2
    /\ app.results[1].request = 2

\* C24: a request is started only with loading false, a non-empty job
\* description and at least one resume, so at most one request is in flight,
\* loading tells whether one is, and results shown are those of the request
\* started last.
C24_OneRequestInFlight ==
    /\ Cardinality(inflight) <= 1
    /\ app.loading <=> inflight # {}
    /\ \A r \in inflight :
          /\ r.id = clicks
          /\ r.jobDescription # ""
          /\ Len(r.resumes) > 0
    /\ \A i \in 1..Len(app.results) : app.results[i].request = clicks

\* C24's case: while the second request is in flight the button is disabled
\* although job description and resumes are there.
C24_Witness ==
    /\ clicks = 2
    /\ Cardinality(inflight) = 1
    /\ app.jobDescription # ""
    /\ Len(app.resumes) > 0
    /\ ButtonDisabled(app)
====
